---- MODULE Spec2Model ----
(***************************************************************************)
(* Model of src/main.cpp: parallel_count_if_custom, the hand-written       *)
(* fork/join counting routine, one invocation per behaviour; further down, *)
(* time_repeat / time_once and the worker-count sweep of main.             *)
(*                                                                         *)
(* Iterators are offsets from `first`: offset o designates element S[o+1]. *)
(* The executor (the calling thread) moves through                         *)
(*   "call" -> "spawn" -> "join" -> "reduce" -> "done"                     *)
(* and the worker threads it created run concurrently with it.             *)
(* "threw" is an exception leaving the call, "terminated" is the process   *)
(* ended by std::terminate.                                                *)
(***************************************************************************)
EXTENDS Integers, Sequences, FiniteSets, TLC

\* ---------------------------------------------------------------- bounds
MaxLen == 3
MaxK == 4

\* element values: even/non-prime, even/prime, odd/prime, odd/composite
Values == {0, 2, 7, 9}

VARIABLES
    S,            \* the sequence [first, last)
    pred,         \* which predicate object is passed
    K,            \* requested worker count
    threadLimit,  \* how many std::thread objects the system lets this call create
    pc,           \* position of the calling thread
    i,            \* spawn loop index (line 45)
    chunk_start,  \* line 43
    threads,      \* std::vector<std::thread>, with each lambda's captures and progress
    results,      \* std::vector<size_t> results(K, 0), 0-indexed function
    j,            \* number of threads joined so far (line 53)
    r,            \* number of slots accumulated so far (line 54)
    sum,          \* std::accumulate's running value
    ret,          \* the returned count (-1: nothing returned)
    calls,        \* history: calls[x] = number of times pred was applied to S[x]
    lastDone,     \* history: the worker that wrote its slot most recently (-1: none)
    slotWrites,   \* history: slotWrites[s] = the workers that wrote results[s], in order
    slotReads,    \* history: the slots the calling thread has read, in order
    readers,      \* history: readers[x] = the threads that applied pred to S[x] (-1: the caller)
    \* time_repeat / time_once
    reps,         \* argument of time_repeat
    tpc,          \* position in time_repeat
    ti,           \* loop index (line 70)
    clock,        \* hrclock::now(), in ms
    t0,           \* time_once's t0
    times,        \* std::vector<double> times
    last_count,   \* line 69
    tret,         \* the returned pair (<< >>: nothing returned)
    fstarted,     \* history: number of invocations of f begun
    measured,     \* history: the durations of the invocations of f, in order
    fcounts,      \* history: the counts f returned, in order
    \* main
    hwReported,   \* history: what std::thread::hardware_concurrency() returned
    hw_threads,   \* line 80
    mpc,          \* position in main
    sizeIdx,      \* position in `sizes` (line 92)
    predIdx,      \* position in `preds` (line 103)
    maxK,         \* lines 121, 147
    mK,           \* the loop variable K of lines 124, 150
    bestK,        \* lines 120, 146
    bestTime,
    kLog          \* history: the K of each parallel_count_if_custom request of this loop

callVars == <<S, pred, K, threadLimit, pc, i, chunk_start, threads, results, j,
              r, sum, ret, calls, lastDone, slotWrites, slotReads, readers>>

timeVars == <<reps, tpc, ti, clock, t0, times, last_count, tret, fstarted,
              measured, fcounts>>

mainVars == <<hwReported, hw_threads, mpc, sizeIdx, predIdx, maxK, mK, bestK, bestTime, kLog>>

vars == <<callVars, timeVars, mainVars>>

\* ------------------------------------------------------------ predicates
PredCheap(x) == x % 2 = 0

RECURSIVE NoOddDivisor(_, _)
NoOddDivisor(n, d) ==
    IF d * d <= n
    THEN IF n % d = 0 THEN FALSE ELSE NoOddDivisor(n, d + 2)
    ELSE TRUE

PredExpensive(n) ==
    IF n < 2 THEN FALSE
    ELSE IF n % 2 = 0 THEN n = 2
    ELSE NoOddDivisor(n, 3)

\* A caller-supplied Pred whose call operator throws on the value 9 and tests
\* parity otherwise (the template accepts any callable).
Throws(p, x) == p = "PredThrowing" /\ x = 9

Holds(p, x) ==
    IF p = "PredCheap" THEN PredCheap(x)
    ELSE IF p = "PredExpensive" THEN PredExpensive(x)
    ELSE x % 2 = 0

PurePreds == {"PredCheap", "PredExpensive"}

\* -------------------------------------------------------- pure functions
\* std::count_if over the offsets [lo, hi)
RECURSIVE CountIf(_, _, _, _)
CountIf(s, lo, hi, p) ==
    IF lo = hi THEN 0
    ELSE (IF Holds(p, s[lo + 1]) THEN 1 ELSE 0) + CountIf(s, lo + 1, hi, p)

\* line 34
IsEmptyStrict(n) == n < 0
IsEmpty(n) == n <= 0

\* line 35
IsSequentialStrict(k) == k < 1
IsSequential(k) == k <= 1

\* lines 41, 42, 46
ThisChunkNoRem(n, k, idx) == n \div k
ThisChunkOffByOne(n, k, idx) == (n \div k) + (IF idx <= n % k THEN 1 ELSE 0)
ThisChunk(n, k, idx) == (n \div k) + (IF idx < n % k THEN 1 ELSE 0)

\* line 47: std::next(chunk_start, this_chunk)
ChunkEndAbsolute(start, size) == size
ChunkEnd(start, size) == start + size

\* line 51: chunk_start = chunk_end
NextStartStale(start, end) == start
NextStart(start, end) == end

\* line 49: the slot the lambda created in iteration idx writes
SlotShared(idx) == 0
SlotOf(idx) == idx

\* line 49: std::count_if adds one for an element that satisfies pred
BumpAlways(acc, hit) == acc + 1
Bump(acc, hit) == IF hit THEN acc + 1 ELSE acc

\* line 53: the loop leaves once every element of `threads` has been joined
AllJoinedAfterFirst(joined, n) == joined >= 1
AllJoined(joined, n) == joined = n

\* line 53: join() returns when the thread's function has returned
JoinReturnsNever(st) == st = "joined"
JoinReturns(st) == st = "finished"

\* line 54: one step of std::accumulate
AccumulateSkip(acc, x) == x
AccumulateStep(acc, x) == acc + x

\* ------------------------------------------------------------------ init
Seqs(n) == UNION {[1..m -> Values] : m \in 0..n}

InitCommon ==
    /\ pc = "call"
    /\ i = 0
    /\ chunk_start = 0
    /\ threads = <<>>
    /\ results = <<>>
    /\ j = 0
    /\ r = 0
    /\ sum = 0
    /\ ret = -1
    /\ calls = [x \in 1..Len(S) |-> 0]
    /\ lastDone = -1
    /\ slotWrites = << >>
    /\ slotReads = << >>
    /\ readers = [x \in 1..Len(S) |-> {}]

\* time_repeat and main are not running
TimeIdle ==
    /\ reps = 0
    /\ tpc = "idle"
    /\ ti = 0
    /\ clock = 0
    /\ t0 = 0
    /\ times = << >>
    /\ last_count = 0
    /\ tret = << >>
    /\ fstarted = 0
    /\ measured = << >>
    /\ fcounts = << >>

MainIdle ==
    /\ hwReported = 0
    /\ hw_threads = 0
    /\ mpc = "idle"
    /\ sizeIdx = 0
    /\ predIdx = 0
    /\ maxK = 0
    /\ mK = 0
    /\ bestK = 0
    /\ bestTime = 0
    /\ kLog = << >>

Init ==
    /\ TimeIdle /\ MainIdle
    /\ S \in Seqs(MaxLen)
    /\ pred \in PurePreds
    /\ K \in 0..MaxK
    /\ threadLimit = K
    /\ InitCommon

\* --------------------------------------------------------------- actions
\* line 34: if (n <= 0) return 0;
ReturnEmpty ==
    /\ pc = "call"
    /\ IsEmpty(Len(S))
    /\ ret' = 0
    /\ pc' = "done"
    /\ UNCHANGED <<S, pred, K, threadLimit, i, chunk_start, threads, results, j,
                   r, sum, calls, lastDone>>
    /\ UNCHANGED <<slotWrites, slotReads, readers>>
    /\ UNCHANGED <<timeVars, mainVars>>

\* line 35: if (K <= 1) return std::count_if(first, last, pred);
RunSequential ==
    /\ pc = "call"
    /\ ~IsEmpty(Len(S))
    /\ IsSequential(K)
    /\ IF \E x \in 1..Len(S) : Throws(pred, S[x])
       THEN LET bad == CHOOSE x \in 1..Len(S) :
                           /\ Throws(pred, S[x])
                           /\ \A y \in 1..(x - 1) : ~Throws(pred, S[y])
            IN /\ calls' = [x \in 1..Len(S) |-> IF x <= bad THEN 1 ELSE 0]
               /\ pc' = "threw"
               /\ ret' = ret
               /\ readers' = [x \in 1..Len(S) |-> IF x <= bad THEN {-1} ELSE {}]
       ELSE /\ calls' = [x \in 1..Len(S) |-> 1]
            /\ readers' = [x \in 1..Len(S) |-> {-1}]
            /\ ret' = CountIf(S, 0, Len(S), pred)
            /\ pc' = "done"
    /\ UNCHANGED <<S, pred, K, threadLimit, i, chunk_start, threads, results, j,
                   r, sum, lastDone>>
    /\ UNCHANGED <<slotWrites, slotReads>>
    /\ UNCHANGED <<timeVars, mainVars>>

\* lines 37-43: the vectors and the loop's initial state
Setup ==
    /\ pc = "call"
    /\ ~IsEmpty(Len(S))
    /\ ~IsSequential(K)
    /\ threads' = <<>>
    /\ results' = [s \in 0..(K - 1) |-> 0]
    /\ slotWrites' = [s \in 0..(K - 1) |-> << >>]
    /\ chunk_start' = 0
    /\ i' = 0
    /\ pc' = "spawn"
    /\ UNCHANGED <<S, pred, K, threadLimit, j, r, sum, ret, calls, lastDone>>
    /\ UNCHANGED <<slotReads, readers>>
    /\ UNCHANGED <<timeVars, mainVars>>

\* lines 45-52: one iteration of the loop; the new thread starts running
Spawn ==
    /\ pc = "spawn"
    /\ i < K
    /\ i < threadLimit
    /\ LET this_chunk == ThisChunk(Len(S), K, i)
           chunk_end == ChunkEnd(chunk_start, this_chunk)
       IN /\ threads' = Append(threads,
                 [start |-> chunk_start, end |-> chunk_end, slot |-> SlotOf(i),
                  pos |-> chunk_start, acc |-> 0, st |-> "running"])
          /\ chunk_start' = NextStart(chunk_start, chunk_end)
    /\ i' = i + 1
    /\ pc' = IF i + 1 < K THEN "spawn" ELSE "join"
    /\ UNCHANGED <<S, pred, K, threadLimit, results, j, r, sum, ret, calls,
                   lastDone>>
    /\ UNCHANGED <<slotWrites, slotReads, readers>>
    /\ UNCHANGED <<timeVars, mainVars>>

\* line 48: the std::thread constructor throws std::system_error. The stack
\* unwinds through `results` and then `threads`; destroying a joinable
\* std::thread calls std::terminate, so the exception reaches the caller only
\* when no thread had been created. Workers still running while `results` is
\* destroyed write through a dangling reference; whatever that does, the
\* process then ends abnormally, which is the one outcome "terminated".
SpawnFail ==
    /\ pc = "spawn"
    /\ i < K
    /\ i >= threadLimit
    /\ pc' = IF Len(threads) = 0 THEN "threw" ELSE "terminated"
    /\ UNCHANGED <<S, pred, K, threadLimit, i, chunk_start, threads, results, j,
                   r, sum, ret, calls, lastDone>>
    /\ UNCHANGED <<slotWrites, slotReads, readers>>
    /\ UNCHANGED <<timeVars, mainVars>>

\* a thread runs from its creation on, whatever the calling thread does,
\* until the process or the call has ended
Alive == pc \in {"spawn", "join", "reduce"}

\* line 49: one iteration of std::count_if inside worker t
WorkerStep(t) ==
    /\ Alive
    /\ t \in 1..Len(threads)
    /\ threads[t].st = "running"
    /\ threads[t].pos # threads[t].end
    /\ ~Throws(pred, S[threads[t].pos + 1])
    /\ threads' = [threads EXCEPT
                     ![t].acc = Bump(@, Holds(pred, S[threads[t].pos + 1])),
                     ![t].pos = @ + 1]
    /\ calls' = [calls EXCEPT ![threads[t].pos + 1] = @ + 1]
    /\ readers' = [readers EXCEPT ![threads[t].pos + 1] = @ \cup {t - 1}]
    /\ UNCHANGED <<S, pred, K, threadLimit, pc, i, chunk_start, results, j, r,
                   sum, ret, lastDone>>
    /\ UNCHANGED <<slotWrites, slotReads>>
    /\ UNCHANGED <<timeVars, mainVars>>

\* line 49: pred throws inside worker t; the exception leaves the thread's
\* function and std::terminate ends the process
WorkerThrow(t) ==
    /\ Alive
    /\ t \in 1..Len(threads)
    /\ threads[t].st = "running"
    /\ threads[t].pos # threads[t].end
    /\ Throws(pred, S[threads[t].pos + 1])
    /\ threads' = [threads EXCEPT ![t].st = "failed"]
    /\ calls' = [calls EXCEPT ![threads[t].pos + 1] = @ + 1]
    /\ readers' = [readers EXCEPT ![threads[t].pos + 1] = @ \cup {t - 1}]
    /\ pc' = "terminated"
    /\ UNCHANGED <<S, pred, K, threadLimit, i, chunk_start, results, j, r, sum,
                   ret, lastDone>>
    /\ UNCHANGED <<slotWrites, slotReads>>
    /\ UNCHANGED <<timeVars, mainVars>>

\* line 49: results[i] = <the count>, and the thread's function returns
WorkerFinish(t) ==
    /\ Alive
    /\ t \in 1..Len(threads)
    /\ threads[t].st = "running"
    /\ threads[t].pos = threads[t].end
    /\ results' = [results EXCEPT ![threads[t].slot] = threads[t].acc]
    /\ threads' = [threads EXCEPT ![t].st = "finished"]
    /\ lastDone' = t - 1
    /\ slotWrites' = [slotWrites EXCEPT ![threads[t].slot] = Append(@, t - 1)]
    /\ UNCHANGED <<S, pred, K, threadLimit, pc, i, chunk_start, j, r, sum, ret,
                   calls>>
    /\ UNCHANGED <<slotReads, readers>>
    /\ UNCHANGED <<timeVars, mainVars>>

\* line 53: t.join() returns once thread t has finished
Join ==
    /\ pc = "join"
    /\ j < Len(threads)
    /\ JoinReturns(threads[j + 1].st)
    /\ threads' = [threads EXCEPT ![j + 1].st = "joined"]
    /\ j' = j + 1
    /\ pc' = IF AllJoined(j + 1, Len(threads)) THEN "reduce" ELSE "join"
    /\ UNCHANGED <<S, pred, K, threadLimit, i, chunk_start, results, r, sum, ret,
                   calls, lastDone>>
    /\ UNCHANGED <<slotWrites, slotReads, readers>>
    /\ UNCHANGED <<timeVars, mainVars>>

\* line 54: std::accumulate reads one slot; after the last one the sum is returned
Reduce ==
    /\ pc = "reduce"
    /\ r < K
    /\ sum' = AccumulateStep(sum, results[r])
    /\ r' = r + 1
    /\ slotReads' = Append(slotReads, r)
    /\ IF r + 1 < K
       THEN pc' = "reduce" /\ ret' = ret
       ELSE pc' = "done" /\ ret' = AccumulateStep(sum, results[r])
    /\ UNCHANGED <<S, pred, K, threadLimit, i, chunk_start, threads, results, j,
                   calls, lastDone>>
    /\ UNCHANGED <<slotWrites, readers>>
    /\ UNCHANGED <<timeVars, mainVars>>

Next ==
    \/ ReturnEmpty
    \/ RunSequential
    \/ Setup
    \/ Spawn
    \/ \E t \in 1..Len(threads) : WorkerStep(t)
    \/ \E t \in 1..Len(threads) : WorkerFinish(t)
    \/ Join
    \/ Reduce

Spec == Init /\ [][Next]_vars

\* The same call under a fair scheduler: as long as some thread of the process
\* can take a step, a step is eventually taken. Both predicates return on
\* every element.
\* Whether the call completes does not depend on the element values, so two
\* of them are kept: 2 (both predicates hold) and 9 (neither holds, and
\* PredExpensive runs its divisor loop).
LiveValues == {2, 9}

InitLive ==
    /\ TimeIdle /\ MainIdle
    /\ S \in UNION {[1..m -> LiveValues] : m \in 0..MaxLen}
    /\ pred \in PurePreds
    /\ K \in 0..MaxK
    /\ threadLimit = K
    /\ InitCommon

SpecLive == InitLive /\ [][Next]_vars /\ WF_vars(Next)

\* ------------------------------------------ the same call, with failures
\* The predicate may be one that throws, and the system may refuse to create
\* a thread after threadLimit of them.
InitFail ==
    /\ TimeIdle /\ MainIdle
    /\ S \in Seqs(MaxLen)
    /\ pred \in PurePreds \cup {"PredThrowing"}
    /\ K \in 0..MaxK
    /\ threadLimit \in 0..K
    /\ InitCommon

NextFail ==
    \/ ReturnEmpty
    \/ RunSequential
    \/ Setup
    \/ Spawn
    \/ SpawnFail
    \/ \E t \in 1..Len(threads) : WorkerStep(t)
    \/ \E t \in 1..Len(threads) : WorkerThrow(t)
    \/ \E t \in 1..Len(threads) : WorkerFinish(t)
    \/ Join
    \/ Reduce

SpecFail == InitFail /\ [][NextFail]_vars

\* ------------------------------------------------ the worked scenarios
EvenScenarioS == <<0, 1, 2, 3, 4, 5, 6, 7, 8, 9>>

SevenScenarioS == <<0, 1, 2, 3, 4, 5, 6>>

ScenarioInputs ==
    { [s |-> EvenScenarioS, p |-> "PredCheap", k |-> 3],
      [s |-> EvenScenarioS, p |-> "PredCheap", k |-> 1],
      [s |-> <<>>, p |-> "PredExpensive", k |-> 5],
      [s |-> SevenScenarioS, p |-> "PredExpensive", k |-> 10] }

InitScenario ==
    /\ TimeIdle /\ MainIdle
    /\ \E in \in ScenarioInputs : S = in.s /\ pred = in.p /\ K = in.k
    /\ threadLimit = K
    /\ InitCommon

SpecScenario == InitScenario /\ [][Next]_vars

\* ------------------------------------------- time_repeat and time_once
MaxReps == 3
MaxDur == 2
MaxCount == 1

\* no call of parallel_count_if_custom is modelled in progress
CallIdle ==
    /\ S = << >>
    /\ pred = "PredCheap"
    /\ K = 0
    /\ threadLimit = 0
    /\ InitCommon

\* lines 13-15
elapsed_ms(a, b) == b - a

\* line 75: std::sort(times.begin(), times.end()), as an insertion sort
RECURSIVE Insert(_, _)
Insert(x, s) ==
    IF s = << >> THEN <<x>>
    ELSE IF x <= Head(s) THEN <<x>> \o s
    ELSE <<Head(s)>> \o Insert(x, Tail(s))

RECURSIVE SortInsertion(_)
SortInsertion(s) ==
    IF s = << >> THEN << >> ELSE Insert(Head(s), SortInsertion(Tail(s)))

SortSkipped(s) == s
SortTimes(s) == SortInsertion(s)

\* line 76: the 0-based index times.size() / 2
MiddleIndex(n) == n \div 2

\* time_repeat(f, reps) is called; f is any callable, each of its invocations
\* returns some count and takes some time
InitTiming ==
    /\ CallIdle /\ MainIdle
    /\ reps \in 1..MaxReps
    /\ tpc = "call"
    /\ ti = 0
    /\ clock = 0
    /\ t0 = 0
    /\ times = << >>
    /\ last_count = 0
    /\ tret = << >>
    /\ fstarted = 0
    /\ measured = << >>
    /\ fcounts = << >>

\* lines 67-70: the vector, last_count and the loop variable
TimeRepeatSetup ==
    /\ tpc = "call"
    /\ times' = << >>
    /\ last_count' = 0
    /\ ti' = 0
    /\ tpc' = "loop"
    /\ UNCHANGED <<reps, clock, t0, tret, fstarted, measured, fcounts>>
    /\ UNCHANGED <<callVars, mainVars>>

\* lines 59-60: time_once takes t0 and invokes f
TimeOnceBegin ==
    /\ tpc = "loop"
    /\ ti < reps
    /\ t0' = clock
    /\ fstarted' = fstarted + 1
    /\ tpc' = "in_f"
    /\ UNCHANGED <<reps, ti, clock, times, last_count, tret, measured, fcounts>>
    /\ UNCHANGED <<callVars, mainVars>>

\* lines 60-62 and 71-73: f returns cnt after d ms; time_once takes t1 and
\* returns the pair, time_repeat records it
TimeOnceEnd ==
    /\ tpc = "in_f"
    /\ \E cnt \in 0..MaxCount, d \in 0..MaxDur :
          /\ clock' = clock + d
          /\ last_count' = cnt
          /\ times' = Append(times, elapsed_ms(t0, clock + d))
          /\ measured' = Append(measured, d)
          /\ fcounts' = Append(fcounts, cnt)
    /\ ti' = ti + 1
    /\ tpc' = "loop"
    /\ UNCHANGED <<reps, t0, tret, fstarted>>
    /\ UNCHANGED <<callVars, mainVars>>

\* lines 75-76: the loop is over; sort and return
TimeRepeatReturn ==
    /\ tpc = "loop"
    /\ ~(ti < reps)
    /\ times' = SortTimes(times)
    /\ tret' = <<last_count, SortTimes(times)[MiddleIndex(Len(times)) + 1]>>
    /\ tpc' = "done"
    /\ UNCHANGED <<reps, ti, clock, t0, last_count, fstarted, measured, fcounts>>
    /\ UNCHANGED <<callVars, mainVars>>

NextTiming ==
    \/ TimeRepeatSetup
    \/ TimeOnceBegin
    \/ TimeOnceEnd
    \/ TimeRepeatReturn

SpecTiming == InitTiming /\ [][NextTiming]_vars

\* ------------------------------------------------------------------ main
MaxHw == 3

\* line 86, every size divided by 100000: the worker counts of the model stay
\* small, and both N < 2 * hw_threads and N > 2 * hw_threads occur
Sizes == <<1, 5, 10, 50, 100>>

\* lines 98-101
Preds == <<"PredCheap", "PredExpensive">>

\* line 81
HwKept(hw) == hw
HwOrOne(hw) == IF hw = 0 THEN 1 ELSE hw

Min(a, b) == IF a < b THEN a ELSE b

\* lines 121, 147: std::min(N, static_cast<size_t>(hw_threads * 2)); the
\* unsigned product does not wrap for the thread counts of the model
MaxKNoMin(n, hw) == hw * 2
MaxKOf(n, hw) == Min(n, hw * 2)

\* lines 120, 146: 1e100, larger than every measured time
NoTimeYet == MaxDur + 1

InitMain ==
    /\ CallIdle /\ TimeIdle
    /\ hwReported \in 0..MaxHw
    /\ hw_threads = hwReported
    /\ mpc = "start"
    /\ sizeIdx = 0
    /\ predIdx = 0
    /\ maxK = 0
    /\ mK = 0
    /\ bestK = 0
    /\ bestTime = 0
    /\ kLog = << >>

\* lines 80-92: hw_threads is fixed up and the loops over sizes and preds begin
MainStart ==
    /\ mpc = "start"
    /\ hw_threads' = HwOrOne(hw_threads)
    /\ sizeIdx' = 1
    /\ predIdx' = 1
    /\ mpc' = "config"
    /\ UNCHANGED <<hwReported, maxK, mK, bestK, bestTime, kLog>>
    /\ UNCHANGED <<callVars, timeVars>>

\* lines 107-124 and 133-150: one (N, predicate) configuration begins; after
\* the two baseline timings, bestK, bestTime, maxK and K are set
BeginConfig ==
    /\ mpc = "config"
    /\ bestK' = 1
    /\ bestTime' = NoTimeYet
    /\ maxK' = MaxKOf(Sizes[sizeIdx], hw_threads)
    /\ mK' = 1
    /\ kLog' = << >>
    /\ mpc' = "kloop"
    /\ UNCHANGED <<hwReported, hw_threads, sizeIdx, predIdx>>
    /\ UNCHANGED <<callVars, timeVars>>

\* lines 125-127 and 151-153: time_repeat runs parallel_count_if_custom with
\* the current K and reports some median time; the best K is kept
CallK ==
    /\ mpc = "kloop"
    /\ mK <= maxK
    /\ kLog' = Append(kLog, mK)
    /\ \E time \in 0..MaxDur :
          IF time < bestTime
          THEN bestTime' = time /\ bestK' = mK
          ELSE bestTime' = bestTime /\ bestK' = bestK
    /\ mK' = mK + 1
    /\ UNCHANGED <<hwReported, hw_threads, mpc, sizeIdx, predIdx, maxK>>
    /\ UNCHANGED <<callVars, timeVars>>

\* lines 129 and 155, then the loops of lines 103 and 92 advance
EndConfig ==
    /\ mpc = "kloop"
    /\ ~(mK <= maxK)
    /\ IF predIdx < Len(Preds)
       THEN predIdx' = predIdx + 1 /\ sizeIdx' = sizeIdx /\ mpc' = "config"
       ELSE IF sizeIdx < Len(Sizes)
       THEN predIdx' = 1 /\ sizeIdx' = sizeIdx + 1 /\ mpc' = "config"
       ELSE predIdx' = predIdx /\ sizeIdx' = sizeIdx /\ mpc' = "done"
    /\ UNCHANGED <<hwReported, hw_threads, maxK, mK, bestK, bestTime, kLog>>
    /\ UNCHANGED <<callVars, timeVars>>

NextMain ==
    \/ MainStart
    \/ BeginConfig
    \/ CallK
    \/ EndConfig

SpecMain == InitMain /\ [][NextMain]_vars

\* ------------------------------------------------------------ properties
\* The number of offsets in [lo, hi) whose element satisfies p, as a set
\* cardinality (the reference the scans are compared with).
RangeMatches(s, p, lo, hi) ==
    Cardinality({x \in (lo + 1)..hi : Holds(p, s[x])})

Matches(s, p) == RangeMatches(s, p, 0, Len(s))

Size(t) == threads[t].end - threads[t].start

Written(t) == threads[t].st \in {"finished", "joined"}

Parallel == K > 1 /\ Len(S) > 0

AllSpawned == Parallel /\ pc \in {"join", "reduce", "done"}

\* C1: for every sequence, pure predicate and K >= 1 (K > N included), the
\* value returned equals the value the K = 1 call returns (the plain
\* std::count_if over the whole sequence), and both equal the number of
\* elements that satisfy the predicate.
C1_CountCorrect ==
    (pc = "done" /\ K >= 1) =>
        /\ ret = CountIf(S, 0, Len(S), pred)
        /\ ret = Matches(S, pred)

C1_Witness ==
    /\ pc = "done"
    /\ Len(S) = 3
    /\ K > Len(S)
    /\ ret = 2

\* C2: with K > 1 the returned total does not depend on the schedule: a slot
\* once written holds its own partition's count whatever the other workers
\* do afterwards, and whichever worker completes last the total is the same
\* function of (S, pred).
C2_ScheduleIndependent ==
    Parallel =>
        /\ \A t \in 1..Len(threads) :
              Written(t) =>
                  results[t - 1] =
                      RangeMatches(S, pred, threads[t].start, threads[t].end)
        /\ \A w \in 0..(K - 1) :
              (pc = "done" /\ lastDone = w) => ret = Matches(S, pred)

\* the first worker is the last to complete, and its count is part of the total
C2_Witness ==
    /\ pc = "done"
    /\ K = 3
    /\ Len(S) = 3
    /\ lastDone = 0
    /\ results[0] = 1
    /\ ret = 2

\* C3: the ranges handed to the workers are ordered, each starts where the
\* previous one ended, the first starts at 0, and once the loop has finished
\* the last ends at N and every offset of [0, N) lies in exactly one range.
C3_PartitionCoverage ==
    /\ \A t \in 1..Len(threads) : threads[t].start <= threads[t].end
    /\ Len(threads) >= 1 => threads[1].start = 0
    /\ \A t \in 1..(Len(threads) - 1) : threads[t + 1].start = threads[t].end
    /\ AllSpawned =>
          /\ Len(threads) = K
          /\ threads[K].end = Len(S)
          /\ \A x \in 0..(Len(S) - 1) :
                Cardinality({t \in 1..K :
                    threads[t].start <= x /\ x < threads[t].end}) = 1

C3_Witness ==
    /\ pc = "join"
    /\ K = 2
    /\ Len(S) = 3
    /\ threads[1].start = 0 /\ threads[1].end = 2
    /\ threads[2].start = 2 /\ threads[2].end = 3

\* C4: with base = N div K and remainder = N mod K, exactly the first
\* `remainder` partitions have size base + 1 and the other K - remainder have
\* size base; the largest and the smallest size differ by at most 1.
C4_PartitionBalance ==
    LET base == Len(S) \div K
        remainder == Len(S) % K
    IN Parallel =>
        /\ \A t \in 1..Len(threads) :
              Size(t) = IF t <= remainder THEN base + 1 ELSE base
        /\ AllSpawned =>
              /\ Cardinality({t \in 1..K : Size(t) = base + 1}) = remainder
              /\ Cardinality({t \in 1..K : Size(t) = base}) = K - remainder
              /\ \A t, u \in 1..K : Size(t) - Size(u) <= 1

C4_Witness ==
    /\ pc = "done"
    /\ K = 2
    /\ Len(S) = 3
    /\ Size(1) = 2 /\ Size(2) = 1

NoWorkerFailed == \A t \in 1..Len(threads) : threads[t].st # "failed"

\* C5: when the predicate throws inside a worker task, the call returns no
\* count and the process is not ended: the other tasks are left to finish and
\* then one failure leaves the call towards the caller.
C5_PredicateFailurePropagates ==
    \A t \in 1..Len(threads) :
        threads[t].st = "failed" =>
            /\ pc \in {"spawn", "join", "threw"}
            /\ ret = -1
            /\ pc = "threw" =>
                  /\ Len(threads) = K
                  /\ \A u \in 1..Len(threads) : u # t => Written(u)

\* the thread-creation failure of the spawn loop has happened
SpawnFailed ==
    /\ pc \in {"threw", "terminated"}
    /\ Parallel
    /\ NoWorkerFailed
    /\ i = threadLimit
    /\ threadLimit < K

\* C6: when creating a worker thread fails after earlier workers were started,
\* the failure leaves the call towards the caller: no count is returned, the
\* call does not go on with fewer workers, and every thread already started
\* has been joined.
C6_SpawnFailureSurfaced ==
    (SpawnFailed /\ Len(threads) >= 1) =>
        /\ pc = "threw"
        /\ ret = -1
        /\ \A t \in 1..Len(threads) : threads[t].st = "joined"

\* C7: for the empty sequence and every K >= 1 the call returns 0, no
\* partition is formed (no worker thread, no result slot) and the predicate
\* is never applied.
C7_EmptyInput ==
    (Len(S) = 0 /\ K >= 1) =>
        /\ pc \in {"call", "done"}
        /\ pc = "done" => ret = 0
        /\ threads = << >>
        /\ results = << >>
        /\ \A x \in DOMAIN calls : calls[x] = 0

C7_Witness ==
    /\ pc = "done"
    /\ Len(S) = 0
    /\ K >= 2
    /\ ret = 0

\* C8: with K = 0 or K = 1 the call is not an error: it creates no worker
\* thread and no result slot, scans the whole range [0, N) once, and returns
\* the number of elements that satisfy the predicate.
C8_DegenerateK ==
    K <= 1 =>
        /\ pc \in {"call", "done"}
        /\ threads = << >>
        /\ results = << >>
        /\ pc = "done" =>
              /\ ret = Matches(S, pred)
              /\ \A x \in 1..Len(S) : calls[x] = 1

C8_Witness ==
    /\ pc = "done"
    /\ K = 0
    /\ Len(S) = 3
    /\ ret = 2

IsEvenScenario == S = EvenScenarioS /\ pred = "PredCheap" /\ K = 3

Ranges == [t \in 1..Len(threads) |-> <<threads[t].start, threads[t].end>>]

\* C9 as the specification states it: partitions [0,4), [4,7), [7,10), slot
\* values 2, 1, 1 after the join, and a returned total of 4.
C9_Original ==
    IsEvenScenario =>
        /\ pc \in {"join", "reduce", "done"} =>
              Ranges = << <<0, 4>>, <<4, 7>>, <<7, 10>> >>
        /\ pc \in {"reduce", "done"} =>
              results = (0 :> 2 @@ 1 :> 1 @@ 2 :> 1)
        /\ pc = "done" => ret = 4

\* C9 (amended): for S = [0..9], P = "is even" and K = 3 the partitions are
\* [0,4), [4,7), [7,10) (sizes 4, 3, 3), the slot values after the join are
\* 2, 2, 1 and the returned total is 5.
C9_EvenScenario ==
    IsEvenScenario =>
        /\ pc \in {"join", "reduce", "done"} =>
              Ranges = << <<0, 4>>, <<4, 7>>, <<7, 10>> >>
        /\ pc \in {"reduce", "done"} =>
              results = (0 :> 2 @@ 1 :> 2 @@ 2 :> 1)
        /\ pc = "done" => ret = 5

C9_Witness ==
    /\ IsEvenScenario
    /\ pc = "done"
    /\ ret = 5

\* C10: when K > N > 0 the first N partitions have size 1 and the K - N
\* trailing ones are empty; an empty partition applies the predicate to
\* nothing and leaves 0 in its slot, and the total equals the number of
\* matching elements. For N = 7 and K = 10 the sizes are seven 1s, then
\* three 0s.
C10_MoreWorkersThanElements ==
    /\ \A idx \in 0..9 : ThisChunk(7, 10, idx) = IF idx < 7 THEN 1 ELSE 0
    /\ (K > Len(S) /\ Len(S) > 0) =>
          /\ \A t \in 1..Len(threads) :
                /\ Size(t) = IF t <= Len(S) THEN 1 ELSE 0
                /\ t > Len(S) =>
                      /\ threads[t].acc = 0
                      /\ results[t - 1] = 0
          /\ AllSpawned => Len(threads) = K
          /\ pc = "done" => ret = Matches(S, pred)

C10_Witness ==
    /\ pc = "done"
    /\ Len(S) = 2
    /\ K = 4
    /\ Size(2) = 1 /\ Size(3) = 0 /\ Size(4) = 0
    /\ ret = 1

PastBarrier == Parallel /\ pc \in {"reduce", "done"}

\* C11: with K > 1 and N > 0, slot s is written at most once before the join
\* barrier and exactly once by the time it is passed, only by the worker
\* created for partition s; its value is the initial 0 until then and that
\* worker's count afterwards (nothing else writes it), and the calling thread
\* reads no slot before the barrier. Workers read no slot at all: the only
\* slot reads of the call are those of the reduction.
C11_SlotOwnership ==
    (Parallel /\ pc # "call") =>
        /\ \A s \in 0..(K - 1) :
              /\ slotWrites[s] \in {<< >>, <<s>>}
              /\ results[s] = IF slotWrites[s] = << >> THEN 0
                              ELSE threads[s + 1].acc
              /\ PastBarrier => slotWrites[s] = <<s>>
        /\ pc \in {"spawn", "join"} => slotReads = << >>

C11_Witness ==
    /\ pc = "done"
    /\ K = 3
    /\ Len(S) = 3
    /\ \A s \in 0..2 : slotWrites[s] = <<s>>
    /\ lastDone = 1
    /\ results[1] = 1

\* C12: the join is a full barrier: whenever the calling thread is in the
\* reduction or has read a slot, all K workers have been created, have
\* scanned their whole range, have written their slot and have been joined.
C12_JoinBarrier ==
    (Parallel /\ (pc \in {"reduce", "done"} \/ slotReads # << >>)) =>
        /\ Len(threads) = K
        /\ \A t \in 1..K :
              /\ threads[t].st = "joined"
              /\ threads[t].pos = threads[t].end
              /\ slotWrites[threads[t].slot] # << >>

C12_Witness ==
    /\ pc = "reduce"
    /\ slotReads = <<0>>
    /\ K = 3
    /\ Len(S) = 3
    /\ lastDone = 0

\* C13: once the join barrier is passed, results[i] is the number of elements
\* of partition i's range that satisfy the predicate, for every ordinal i in
\* 0..K-1, and it is 0 for an empty range.
C13_SlotValues ==
    PastBarrier =>
        \A t \in 1..K :
            /\ results[t - 1] =
                  RangeMatches(S, pred, threads[t].start, threads[t].end)
            /\ Size(t) = 0 => results[t - 1] = 0

C13_Witness ==
    /\ pc = "reduce"
    /\ r = 0
    /\ K = 3
    /\ Len(S) = 2
    /\ results[0] = 1 /\ results[1] = 0 /\ results[2] = 0
    /\ Size(2) = 1 /\ Size(3) = 0

\* the orders in which k slots can be visited, each once
SlotOrders ==
    [k \in 0..(MaxK + 1) |->
        {ord \in [1..k -> 0..(k - 1)] :
            \A a, b \in 1..k : a # b => ord[a] # ord[b]}]

RECURSIVE OrderSumFrom(_, _, _)
OrderSumFrom(f, ord, k) ==
    IF k > Len(ord) THEN 0
    ELSE f[ord[k]] + OrderSumFrom(f, ord, k + 1)

\* the sum of the slots of f visited in the order ord
OrderSum(f, ord) == OrderSumFrom(f, ord, 1)

\* C14: with K > 1 and N > 0 the reduction reads the slots once each in
\* increasing partition order, its running value is the sum of the slots read
\* so far, the value returned is the sum of all K slots as they stand after
\* the join, and summing the slots in any other order gives the same total.
C14_Reduction ==
    PastBarrier =>
        /\ slotReads = [k \in 1..r |-> k - 1]
        /\ sum = OrderSum(results, slotReads)
        /\ pc = "done" =>
              /\ r = K
              /\ ret = sum
              /\ \A ord \in SlotOrders[K] : OrderSum(results, ord) = ret

C14_Witness ==
    /\ pc = "done"
    /\ K = 3
    /\ slotReads = <<0, 1, 2>>
    /\ results[0] = 1 /\ results[1] = 0 /\ results[2] = 1
    /\ ret = 2

\* partition idx of [0, n) split k ways, in closed form
Partition(n, k, idx) ==
    LET base == n \div k
        remainder == n % k
        lo == idx * base + (IF idx < remainder THEN idx ELSE remainder)
    IN <<lo, lo + base + (IF idx < remainder THEN 1 ELSE 0)>>

NonEmpty(range) == range[1] < range[2]

RangeOf(t) == <<threads[t].start, threads[t].end>>

\* C15: with K > 1 and N > 0 one worker thread is launched per loop
\* iteration; the thread launched in iteration idx is responsible for exactly
\* one partition, the one of ordinal idx, and once the loop has finished
\* every non-empty partition is the range of exactly one worker thread.
C15_OneWorkerPerPartition ==
    Parallel =>
        /\ Len(threads) = i
        /\ \A t \in 1..Len(threads) :
              /\ threads[t].slot = t - 1
              /\ RangeOf(t) = Partition(Len(S), K, t - 1)
        /\ AllSpawned =>
              /\ Len(threads) = K
              /\ \A idx \in 0..(K - 1) :
                    LET part == Partition(Len(S), K, idx)
                    IN NonEmpty(part) =>
                          Cardinality({t \in 1..K : RangeOf(t) = part}) = 1

\* two workers are in the middle of their own ranges at the same time
C15_Witness ==
    /\ pc = "join"
    /\ K = 2
    /\ Len(S) = 3
    /\ threads[1].st = "running" /\ threads[1].pos = 1
    /\ threads[2].st = "running" /\ threads[2].pos = 2

\* C16: under fair scheduling every call runs to completion: the calling
\* thread eventually returns a total, and at that point every worker thread
\* it created (K of them when K > 1 and N > 0) has finished its range and has
\* been joined.
C16_RunsToCompletion ==
    <>( /\ pc = "done"
        /\ ret >= 0
        /\ Parallel => Len(threads) = K
        /\ \A t \in 1..Len(threads) :
              threads[t].st = "joined" /\ threads[t].pos = threads[t].end )

C16_Witness ==
    /\ pc = "done"
    /\ K = 4
    /\ Len(S) = 3
    /\ ret = 3
    /\ \A t \in 1..4 : threads[t].st = "joined"

\* the ordinal of the partition that holds element x (offset x - 1)
Owner(x) ==
    CHOOSE idx \in 0..(K - 1) :
        /\ Partition(Len(S), K, idx)[1] <= x - 1
        /\ x - 1 < Partition(Len(S), K, idx)[2]

ReadsInsideOwnPartition ==
    Parallel =>
        /\ \A t \in 1..Len(threads) :
              /\ threads[t].start <= threads[t].pos
              /\ threads[t].pos <= threads[t].end
        /\ \A x \in 1..Len(S) :
              /\ calls[x] <= 1
              /\ calls[x] = Cardinality(readers[x])
              /\ readers[x] \subseteq {Owner(x)}
              /\ PastBarrier => readers[x] = {Owner(x)}

\* C17: no step of a call changes the sequence or the predicate; a worker
\* applies the predicate only to elements of its own partition, no element
\* has the predicate applied to it twice, and once the join barrier is passed
\* the predicate has been applied to every element exactly once, by the worker
\* that owns the element's partition.
C17_ReadOnlyDisjointReads ==
    /\ []ReadsInsideOwnPartition
    /\ [][S' = S /\ pred' = pred]_vars

C17_Witness ==
    /\ pc = "done"
    /\ K = 2
    /\ Len(S) = 3
    /\ readers = <<{0}, {0}, {1}>>
    /\ calls = <<1, 1, 1>>

AtMost(m, v) == Cardinality({x \in 1..Len(m) : m[x] <= v})

AtLeast(m, v) == Cardinality({x \in 1..Len(m) : m[x] >= v})

Below(m, v) == Cardinality({x \in 1..Len(m) : m[x] < v})

\* v is the element at 0-based position Len(m) div 2 of m put in ascending order
IsMiddleOfSorted(m, v) ==
    /\ \E x \in 1..Len(m) : m[x] = v
    /\ Below(m, v) <= Len(m) \div 2
    /\ Len(m) \div 2 < AtMost(m, v)

\* C18: for every reps >= 1, time_repeat invokes f exactly reps times, each
\* invocation beginning after the previous one has returned, and returns the
\* count of the last invocation together with the middle element (0-based
\* position reps div 2) of the measured durations in ascending order, which
\* is a median: at least half of the durations are no greater and at least
\* half are no smaller.
C18_TimeRepeat ==
    /\ fstarted <= reps
    /\ fstarted - Len(measured) = IF tpc = "in_f" THEN 1 ELSE 0
    /\ tpc = "done" =>
          /\ fstarted = reps
          /\ Len(measured) = reps
          /\ tret[1] = fcounts[reps]
          /\ IsMiddleOfSorted(measured, tret[2])
          /\ 2 * AtMost(measured, tret[2]) >= reps
          /\ 2 * AtLeast(measured, tret[2]) >= reps

C18_Witness ==
    /\ tpc = "done"
    /\ reps = 3
    /\ measured = <<2, 0, 1>>
    /\ fcounts = <<0, 0, 1>>
    /\ tret = <<1, 1>>

\* C19: for every size and both predicates, the worker counts main requests
\* are exactly 1, 2, ..., min(N, 2 * hw) in this order, where hw is the
\* reported hardware concurrency, or 1 when 0 was reported; so no request has
\* K = 0, K > N or K > 2 * hw.
C19_WorkerCountSweep ==
    mpc = "kloop" =>
        LET hw == IF hwReported = 0 THEN 1 ELSE hwReported
            N == Sizes[sizeIdx]
            limit == IF N < 2 * hw THEN N ELSE 2 * hw
        IN /\ kLog = [k \in 1..Len(kLog) |-> k]
           /\ \A k \in 1..Len(kLog) :
                 kLog[k] >= 1 /\ kLog[k] <= N /\ kLog[k] <= 2 * hw
           /\ ~(mK <= maxK) => Len(kLog) = limit

\* N = 5 with 3 hardware threads, second predicate: K runs over 1..5
C19_Witness ==
    /\ mpc = "kloop"
    /\ hwReported = 3
    /\ Sizes[sizeIdx] = 5
    /\ Preds[predIdx] = "PredExpensive"
    /\ ~(mK <= maxK)
    /\ kLog = <<1, 2, 3, 4, 5>>

====
